---- MODULE Spec2Model ----
(***************************************************************************)
(* trakr (src/src/index.ts): the Tracker distribution stores (Unbounded    *)
(* and Bounded), and the Timer built on them.                              *)
(*                                                                         *)
(* The specifications share the operators that model the code:            *)
(*   Spec       a Bounded and an Unbounded Tracker fed the same calls      *)
(*   TimerSpec  one Timer (Basic or Tracing) over one Tracker and a clock  *)
(*   TracerSpec the TRACER, Timer.create reading it, and the Timer made    *)
(*   StatsSpec  the functions of Stats applied to one array                *)
(* Samples, times and counters are integers, which a double holds exactly; *)
(* the numbers of Stats are doubles, rounded as IEEE 754 rounds them.     *)
(***************************************************************************)
EXTENDS Integers, Sequences, FiniteSets, TLC

(***************************************************************************)
(* Bounds of the model.                                                    *)
(***************************************************************************)
\* the mixed workload's buffers hold 0 .. MaxRecords Records
MaxRecords == 2
\* add calls made after the buffer is full (each one fails)
MaxExtraAdds == 1
\* count calls per run
MaxCounts == 1
\* count calls per run of the counting workload
MaxCounters == 2
\* the clock returns 0 .. MaxClock
MaxClock == 2
\* callbacks of time() held at once
MaxCallbacks == 1
\* callback runs that reach tracker.add, per Timer run
MaxSamples == 1
\* the arrays handed to Stats have 0 .. MaxLen elements of StatValues
MaxLen == 3

(***************************************************************************)
(* Program constants.                                                      *)
(***************************************************************************)
\* a Record is 9 bytes: `this.next.loc += 9`
RecordSize == 9
\* the largest value writeUInt8 accepts (the tag is one unsigned byte)
UInt8Max == 255
\* exponent bias of an IEEE-754 binary64 (writeDoubleBE / readDoubleBE)
DoubleBias == 1023

\* distribution and counter names of the mixed workload and of the Timer
Names == {0, 1}
\* sample values passed to add
Values == {-3, 10}
\* values passed to count; <<>> is the omitted argument
CountValues == {<<>>, <<0>>, <<2>>}
\* what the caller's buffer holds before the store writes to it
\* (Buffer.alloc zero-fills, Buffer.allocUnsafe does not)
Fills == {0, 255}
\* bytes a buffer may have beyond a whole number of Records
Remainders == {0, 4}
\* the values handed to a callback of time()
Payloads == {7}
\* capacities of a Timer's buffer, which Buffer.alloc zero-fills
TimerCaps == {4, RecordSize}
TimerFills == {0}
\* the categories passed to Tracer.enable; <<>> is the omitted argument
CategoryChoices == {<<>>, << <<"v8">> >>}
\* options.trace of Timer.create; <<>> is the omitted option
TraceOptions == {<<>>, <<TRUE>>, <<FALSE>>}
\* options.buf of Timer.create; <<>> is the omitted option
BufOptions == {<<>>, <<[i \in 1..RecordSize |-> 0]>>}
\* the values of the arrays handed to Stats
StatValues == {-3, 1, 10}
\* the lengths of the arrays the tests build with array(num), the lengths
\* around the end of TABLE, and one whose variance is rounded
TestSizes == {28, 30, 31, 32, 100, 101}
\* the second argument of Stats.variance and the like; <<>> is omitted
SampleOptions == {<<>>, <<TRUE>>, <<FALSE>>}
\* capacities of the mixed workload
SmallCaps == {RecordSize * k + r : k \in 0..MaxRecords, r \in Remainders}
\* the distinct-names workload: room for one Record more than there are tags
BigRecords == UInt8Max + 2
BigCap == RecordSize * BigRecords

\* an optional value: <<>> is undefined, <<v>> is v
None == <<>>
Some(v) == <<v>>
\* an empty Map
EmptyMap == <<>>

(***************************************************************************)
(* Arithmetic helpers.                                                     *)
(***************************************************************************)
RECURSIVE Pow2(_)
Pow2(n) == IF n <= 0 THEN 1 ELSE 2 * Pow2(n - 1)

Abs(v) == IF v < 0 THEN -v ELSE v

\* floor(log2(a)) for a >= 1
RECURSIVE Log2(_)
Log2(a) == IF a < 2 THEN 0 ELSE 1 + Log2(a \div 2)

(***************************************************************************)
(* Buffer: a fixed-length sequence of bytes; offset o is element o + 1.    *)
(* Each write returns [ok, buf]: ok = FALSE is the RangeError Node throws, *)
(* and a write that throws leaves the buffer as it was.                    *)
(***************************************************************************)
\* buf.writeUInt8(value, offset): the value is validated, then the offset
WriteUInt8(buf, value, offset) ==
    IF value < 0 \/ value > UInt8Max THEN [ok |-> FALSE, buf |-> buf]
    ELSE IF offset < 0 \/ offset > Len(buf) - 1 THEN [ok |-> FALSE, buf |-> buf]
    ELSE [ok |-> TRUE, buf |-> [buf EXCEPT ![offset + 1] = value]]

\* the 8 big-endian bytes of the binary64 of an integer v, |v| < 4096:
\* sign (1 bit), biased exponent (11 bits), mantissa (52 bits, of which an
\* integer below 4096 uses at most the first 12)
DoubleBytes(v) ==
    IF v = 0 THEN <<0, 0, 0, 0, 0, 0, 0, 0>>
    ELSE LET a      == Abs(v)
             e      == Log2(a)
             biased == e + DoubleBias
             frac   == a - Pow2(e)
             sign   == IF v < 0 THEN 128 ELSE 0
             m4     == (frac * 16) \div Pow2(e)
             m12    == ((frac * 4096) \div Pow2(e)) % 256
         IN  <<sign + (biased \div 16), (biased % 16) * 16 + m4, m12,
               0, 0, 0, 0, 0>>

\* the integer a binary64 written by DoubleBytes stands for
DoubleValue(b) ==
    LET biased == (b[1] % 128) * 16 + (b[2] \div 16)
        m12    == (b[2] % 16) * 256 + b[3]
        e      == biased - DoubleBias
        mag    == Pow2(e) + (m12 * Pow2(e)) \div 4096
    IN  IF biased = 0 /\ m12 = 0 THEN 0
        ELSE IF b[1] >= 128 THEN -mag ELSE mag

\* writeDoubleBE with the bound off by one: the last 8 bytes are refused
WriteDoubleBE_OffByOne(buf, val, offset) ==
    IF offset < 0 \/ offset + 8 >= Len(buf) THEN [ok |-> FALSE, buf |-> buf]
    ELSE [ok  |-> TRUE,
          buf |-> [i \in 1..Len(buf) |->
                     IF i > offset /\ i <= offset + 8
                     THEN DoubleBytes(val)[i - offset] ELSE buf[i]]]

\* buf.writeDoubleBE(val, offset): all 8 bytes must fit, or nothing is written
WriteDoubleBE(buf, val, offset) ==
    IF offset < 0 \/ offset + 8 > Len(buf) THEN [ok |-> FALSE, buf |-> buf]
    ELSE [ok  |-> TRUE,
          buf |-> [i \in 1..Len(buf) |->
                     IF i > offset /\ i <= offset + 8
                     THEN DoubleBytes(val)[i - offset] ELSE buf[i]]]

\* buf.readUInt8(offset)
ReadUInt8(buf, offset) == buf[offset + 1]

\* buf.readDoubleBE(offset)
ReadDoubleBE(buf, offset) ==
    DoubleValue([i \in 1..8 |-> buf[offset + i]])

(***************************************************************************)
(* Stats.compute, the fields that are exact on integer samples.            *)
(***************************************************************************)
\* sorted.sort((a, b) => a - b): element j goes to the place that the
\* number of elements before it in ascending order gives
SortAsc(arr) ==
    LET n    == Len(arr)
        rank == [j \in 1..n |->
                   1 + Cardinality({k \in 1..n :
                          \/ arr[k] < arr[j]
                          \/ arr[k] = arr[j] /\ k < j})]
    IN  [i \in 1..n |-> arr[CHOOSE j \in 1..n : rank[j] = i]]

\* arr[lo] + ... + arr[hi], lo <= hi, added by halves (the sum is exact,
\* so the order of the additions does not change it)
RECURSIVE SumRange(_, _, _)
SumRange(arr, lo, hi) ==
    IF lo = hi THEN arr[lo]
    ELSE LET mid == (lo + hi) \div 2
         IN  SumRange(arr, lo, mid) + SumRange(arr, mid + 1, hi)

\* Stats.sum: 0 for an empty array, else reduce with +
StatsSum(arr) ==
    IF Len(arr) = 0 THEN 0 ELSE SumRange(arr, 1, Len(arr))

\* Stats.compute sorting the caller's array, without arr.slice()
SlicedArray_SortedInPlace(arr) == SortAsc(arr)

\* the caller's array after Stats.compute(arr): `sorted = arr.slice()` is a
\* copy, and sorting it leaves arr as it was
SlicedArray(arr) == arr

\* Stats.compute(arr): cnt, sum, min and max of the sorted copy; an empty
\* array has no sorted[0], so min and max are undefined
StatsCompute(arr) ==
    LET sorted == SortAsc(arr)
    IN  [cnt |-> Len(sorted),
         sum |-> StatsSum(sorted),
         min |-> IF sorted = <<>> THEN None ELSE Some(sorted[1]),
         max |-> IF sorted = <<>> THEN None ELSE Some(sorted[Len(sorted)])]

(***************************************************************************)
(* Number: the double-precision value of IEEE 754, as JavaScript computes  *)
(* with it.  A finite number is neg, mant and exp, standing for            *)
(* (-1)^neg * mant * 2^exp, where mant is a natural number of exactly      *)
(* Precision bits (or none, for 0).  mant is written in limbs, the least   *)
(* significant first and the most significant not 0.  Every operation      *)
(* computes the exact result and rounds it to the nearest number, ties to  *)
(* even.  The numbers of Stats stay far from overflow and underflow, which *)
(* are left out, and 0 has one sign.                                       *)
(***************************************************************************)
LimbBits == 14
Limb == 16384
Precision == 53
\* bits a quotient is computed to beyond the dividend's
GuardBits == 70

Min(a, b) == IF a <= b THEN a ELSE b

\* the value of an operand or of a constant of the code, computed once:
\* the element of {v}
Once(S) == CHOOSE v \in S : TRUE

\* the natural number n in limbs
RECURSIVE BigOf(_)
BigOf(n) == IF n = 0 THEN <<>> ELSE <<n % Limb>> \o BigOf(n \div Limb)

\* the natural number that the limbs a stand for, when it is small
RECURSIVE BigToInt(_)
BigToInt(a) == IF a = <<>> THEN 0 ELSE a[1] + Limb * BigToInt(Tail(a))

\* a without its most significant limbs that are 0
RECURSIVE BigTrim(_)
BigTrim(a) ==
    IF a = <<>> THEN <<>>
    ELSE IF a[Len(a)] = 0 THEN BigTrim(SubSeq(a, 1, Len(a) - 1))
    ELSE a

BigLimb(a, i) == IF i \in 1..Len(a) THEN a[i] ELSE 0

RECURSIVE BigAddFrom(_, _, _, _)
BigAddFrom(a, b, i, carry) ==
    IF i > Len(a) /\ i > Len(b)
    THEN IF carry = 0 THEN <<>> ELSE <<carry>>
    ELSE LET t == BigLimb(a, i) + BigLimb(b, i) + carry
         IN  <<t % Limb>> \o BigAddFrom(a, b, i + 1, t \div Limb)

\* a + b
BigAdd(a, b) == BigAddFrom(a, b, 1, 0)

RECURSIVE BigSubFrom(_, _, _, _)
BigSubFrom(a, b, i, borrow) ==
    IF i > Len(a) THEN <<>>
    ELSE LET t == a[i] - BigLimb(b, i) - borrow
         IN  IF t < 0 THEN <<t + Limb>> \o BigSubFrom(a, b, i + 1, 1)
             ELSE <<t>> \o BigSubFrom(a, b, i + 1, 0)

\* a - b, for a >= b
BigSub(a, b) == BigTrim(BigSubFrom(a, b, 1, 0))

RECURSIVE BigLessAt(_, _, _)
BigLessAt(a, b, i) ==
    IF i = 0 THEN FALSE
    ELSE IF a[i] # b[i] THEN a[i] < b[i]
    ELSE BigLessAt(a, b, i - 1)

\* a < b
BigLess(a, b) ==
    IF Len(a) # Len(b) THEN Len(a) < Len(b) ELSE BigLessAt(a, b, Len(a))

RECURSIVE BigMulFrom(_, _, _, _)
BigMulFrom(a, k, i, carry) ==
    IF i > Len(a) THEN IF carry = 0 THEN <<>> ELSE <<carry>>
    ELSE LET t == a[i] * k + carry
         IN  <<t % Limb>> \o BigMulFrom(a, k, i + 1, t \div Limb)

\* a * k, for k < Limb
BigMulSmall(a, k) == BigTrim(BigMulFrom(a, k, 1, 0))

\* a * Limb^n
BigShiftLimbs(a, n) == IF a = <<>> THEN <<>> ELSE [i \in 1..n |-> 0] \o a

RECURSIVE BigMulAcc(_, _, _)
BigMulAcc(a, b, i) ==
    IF i > Len(b) THEN <<>>
    ELSE BigAdd(BigShiftLimbs(BigMulSmall(a, b[i]), i - 1),
                BigMulAcc(a, b, i + 1))

\* a * b
BigMul(a, b) == BigMulAcc(a, b, 1)

RECURSIVE BigDivFrom(_, _, _, _)
BigDivFrom(a, d, i, rem) ==
    IF i = 0 THEN [q |-> <<>>, r |-> rem]
    ELSE LET cur  == rem * Limb + a[i]
             rest == BigDivFrom(a, d, i - 1, cur % d)
         IN  [q |-> rest.q \o <<cur \div d>>, r |-> rest.r]

\* the quotient q and the remainder r of a by d, for 0 < d < Limb
BigDivSmall(a, d) ==
    Once({[q |-> BigTrim(qr.q), r |-> qr.r] :
          qr \in {BigDivFrom(a, d, Len(a), 0)}})

\* a * 2^bits
BigShl(a, bits) ==
    BigShiftLimbs(BigMulSmall(a, Pow2(bits % LimbBits)), bits \div LimbBits)

\* floor(a / 2^bits)
BigShr(a, bits) ==
    LET drop == bits \div LimbBits
    IN  IF drop >= Len(a) THEN <<>>
        ELSE BigDivSmall(SubSeq(a, drop + 1, Len(a)),
                         Pow2(bits % LimbBits)).q

\* the number of bits of a
BigBits(a) ==
    IF a = <<>> THEN 0
    ELSE LimbBits * (Len(a) - 1) + Log2(a[Len(a)]) + 1

BigOdd(a) == a # <<>> /\ a[1] % 2 = 1

Zero == [kind |-> "num", neg |-> FALSE, mant |-> <<>>, exp |-> 0]
NaN == [kind |-> "nan", neg |-> FALSE, mant |-> <<>>, exp |-> 0]
\* Infinity and -Infinity
Infinity(neg) == [kind |-> "inf", neg |-> neg, mant |-> <<>>, exp |-> 0]

IsZero(a) == a.kind = "num" /\ a.mant = <<>>

\* whether m = q * 2^k + r, with r < 2^k, rounds up to (q + 1) * 2^k: r is
\* more than half of 2^k, or half of it and a fraction follows or q is odd
RoundsUp(m, q, k, sticky) ==
    Once({\/ BigLess(half, r)
          \/ r = half /\ (sticky \/ BigOdd(q)) :
          r \in {BigSub(m, BigShl(q, k))}, half \in {BigShl(<<1>>, k - 1)}})

\* the number nearest to (-1)^neg * (m + f) * 2^e, where the fraction f is
\* 0, or lies strictly between 0 and 1 when sticky is TRUE (m then has
\* more than Precision + 1 bits)
Round(neg, mag, e, sticky) ==
    Once({
        IF m = <<>> THEN Zero
        ELSE IF BigBits(m) <= Precision
        THEN [kind |-> "num", neg |-> neg,
              mant |-> BigShl(m, Precision - BigBits(m)),
              exp  |-> e - (Precision - BigBits(m))]
        ELSE Once({Once({
                 IF BigBits(q1) > Precision
                 THEN [kind |-> "num", neg |-> neg,
                       mant |-> BigShr(q1, 1), exp |-> e + k + 1]
                 ELSE [kind |-> "num", neg |-> neg,
                       mant |-> q1, exp |-> e + k] :
                 q1 \in {IF RoundsUp(m, q, k, sticky)
                         THEN BigAdd(q, <<1>>) ELSE q}}) :
                 k \in {BigBits(m) - Precision},
                 q \in {BigShr(m, BigBits(m) - Precision)}}) :
        m \in {mag}})

\* the integer n as a number
Whole(n) == Round(n < 0, BigOf(Abs(n)), 0, FALSE)

\* -a
Neg(a) == IF IsZero(a) THEN a ELSE [a EXCEPT !.neg = ~a.neg]

\* a + b
Plus(left, right) ==
    Once({
        IF a.kind = "nan" \/ b.kind = "nan" THEN NaN
        ELSE IF a.kind = "inf"
        THEN IF b.kind = "inf" /\ b.neg # a.neg THEN NaN ELSE a
        ELSE IF b.kind = "inf" THEN b
        ELSE IF IsZero(a) THEN b
        ELSE IF IsZero(b) THEN a
        ELSE Once({
                 Round(IF a.neg # b.neg /\ BigLess(ma, mb) THEN b.neg ELSE a.neg,
                       IF a.neg = b.neg THEN BigAdd(ma, mb)
                       ELSE IF BigLess(ma, mb) THEN BigSub(mb, ma)
                       ELSE BigSub(ma, mb),
                       Min(a.exp, b.exp), FALSE) :
                 ma \in {BigShl(a.mant, a.exp - Min(a.exp, b.exp))},
                 mb \in {BigShl(b.mant, b.exp - Min(a.exp, b.exp))}}) :
        a \in {left}, b \in {right}})

\* a - b
Minus(a, b) == Plus(a, Neg(b))

\* a * b
Times(left, right) ==
    Once({
        IF a.kind = "nan" \/ b.kind = "nan" THEN NaN
        ELSE IF a.kind = "inf" \/ b.kind = "inf"
        THEN IF IsZero(a) \/ IsZero(b) THEN NaN ELSE Infinity(a.neg # b.neg)
        ELSE IF IsZero(a) \/ IsZero(b) THEN Zero
        ELSE Round(a.neg # b.neg, BigMul(a.mant, b.mant), a.exp + b.exp, FALSE) :
        a \in {left}, b \in {right}})

\* a / d, for an integer d with 0 <= d < Limb, as the lengths of arrays are
DivBy(left, d) ==
    Once({
        IF a.kind = "nan" THEN NaN
        ELSE IF a.kind = "inf" THEN a
        ELSE IF d = 0 THEN IF IsZero(a) THEN NaN ELSE Infinity(a.neg)
        ELSE IF IsZero(a) THEN Zero
        ELSE Once({Round(a.neg, qr.q, a.exp - GuardBits, qr.r # 0) :
                   qr \in {BigDivSmall(BigShl(a.mant, GuardBits), d)}}) :
        a \in {left}})

\* the number a decimal literal num / den stands for
Decimal(num, den) == DivBy(Whole(num), den)

\* |a| < |b|, for finite a and b
SmallerThan(a, b) ==
    IF IsZero(b) THEN FALSE
    ELSE IF IsZero(a) THEN TRUE
    ELSE \/ a.exp < b.exp
         \/ a.exp = b.exp /\ BigLess(a.mant, b.mant)

\* a < b and a <= b: FALSE when either is NaN
Less(left, right) ==
    Once({
        IF a.kind = "nan" \/ b.kind = "nan" \/ a = b THEN FALSE
        ELSE IF a.kind = "inf" THEN a.neg
        ELSE IF b.kind = "inf" THEN ~b.neg
        ELSE IF a.neg # b.neg THEN a.neg
        ELSE IF a.neg THEN SmallerThan(b, a)
        ELSE SmallerThan(a, b) :
        a \in {left}, b \in {right}})
Leq(a, b) == a.kind # "nan" /\ b.kind # "nan" /\ (a = b \/ Less(a, b))

\* Math.floor(a) as an integer, for a finite a >= 0
Floor(a) ==
    IF IsZero(a) THEN 0
    ELSE IF a.exp >= 0 THEN BigToInt(BigShl(a.mant, a.exp))
    ELSE BigToInt(BigShr(a.mant, -a.exp))

\* a % 1, for a finite a >= 0: exact
Mod1(a) == Minus(a, Whole(Floor(a)))

\* Math.abs(a)
AbsOf(a) == [a EXCEPT !.neg = FALSE]

\* a digit that is at least floor(rem / d), and seldom more than 2 above
\* it: the quotient of the leading bits of rem, rounded up, by the leading
\* 15 bits of d.  For d of 15 bits or more and rem < d * Limb.
DigitAbove(rem, d) ==
    LET s == BigBits(d) - (LimbBits + 1)
    IN  Min(Limb - 1,
            (BigToInt(BigShr(rem, s)) + 1) \div BigToInt(BigShr(d, s)))

\* the largest digit q <= guess with d * q <= rem
RECURSIVE DivDigit(_, _, _)
DivDigit(rem, d, guess) ==
    IF BigLess(rem, BigMulSmall(d, guess))
    THEN DivDigit(rem, d, guess - 1)
    ELSE guess

\* k more limbs of the quotient of rem by d after the point, for rem < d:
\* q is the quotient so far.  Returns [q, r], r the last remainder.
RECURSIVE BigDivLimbs(_, _, _, _)
BigDivLimbs(rem, d, k, q) ==
    IF k = 0 THEN [q |-> q, r |-> rem]
    ELSE Once({BigDivLimbs(BigSub(BigShiftLimbs(rem, 1),
                                  BigMulSmall(d, digit)),
                           d, k - 1, <<digit>> \o q) :
               digit \in {DivDigit(BigShiftLimbs(rem, 1), d,
                                   DigitAbove(BigShiftLimbs(rem, 1), d))}})

\* a / b
Div(left, right) ==
    Once({
        IF a.kind = "nan" \/ b.kind = "nan" THEN NaN
        ELSE IF a.kind = "inf"
        THEN IF b.kind = "inf" THEN NaN ELSE Infinity(a.neg # b.neg)
        ELSE IF b.kind = "inf" THEN Zero
        ELSE IF IsZero(b)
        THEN IF IsZero(a) THEN NaN ELSE Infinity(a.neg # b.neg)
        ELSE IF IsZero(a) THEN Zero
        ELSE Once({Round(a.neg # b.neg, qr.q,
                         a.exp - b.exp - 4 * LimbBits, qr.r # <<>>) :
                   qr \in {IF BigLess(a.mant, b.mant)
                           THEN BigDivLimbs(a.mant, b.mant, 4, <<>>)
                           ELSE BigDivLimbs(BigSub(a.mant, b.mant), b.mant,
                                            4, <<1>>)}}) :
        a \in {left}, b \in {right}})

\* the largest r with r * r <= n, found bit by bit from bit k down
RECURSIVE RootBits(_, _, _)
RootBits(n, k, r) ==
    IF k < 0 THEN r
    ELSE IF (r + Pow2(k)) * (r + Pow2(k)) <= n
    THEN RootBits(n, k - 1, r + Pow2(k))
    ELSE RootBits(n, k - 1, r)

\* (2 * r * Limb + digit) * digit: what the digit takes from the remainder
RootTakes(r, digit) ==
    BigMulSmall(BigAdd(BigShiftLimbs(BigMulSmall(r, 2), 1), BigOf(digit)),
                digit)

\* the largest digit <= guess with RootTakes(r, digit) <= rem
RECURSIVE RootDigit(_, _, _)
RootDigit(rem, r, guess) ==
    IF BigLess(rem, RootTakes(r, guess))
    THEN RootDigit(rem, r, guess - 1)
    ELSE guess

\* the square root of m limb by limb: r is the root of the limbs of m above
\* limb k and rem what they leave; each turn takes in limbs k and k - 1.
\* Returns [q, r], the root and the last remainder.
RECURSIVE BigRootLimbs(_, _, _, _)
BigRootLimbs(m, k, r, rem) ==
    IF k < 2 THEN [q |-> r, r |-> rem]
    ELSE Once({Once({BigRootLimbs(m, k - 2, <<digit>> \o r,
                                  BigSub(r1, RootTakes(r, digit))) :
               digit \in {RootDigit(r1, r,
                              DigitAbove(r1, BigShiftLimbs(BigMulSmall(r, 2),
                                                           1)))}}) :
               r1 \in {BigTrim(<<m[k - 1], m[k]>> \o rem)}})

\* Math.sqrt(a): the root of the mantissa brought to 8 limbs, the two
\* at the top first
Sqrt(operand) ==
    Once({
        IF a.kind = "nan" THEN NaN
        ELSE IF IsZero(a) THEN Zero
        ELSE IF a.neg THEN NaN
        ELSE IF a.kind = "inf" THEN a
        ELSE Once({Once({Once({
                 Round(FALSE, qr.q, (a.exp - up) \div 2, qr.r # <<>>) :
                 qr \in {BigRootLimbs(m, 6, <<r>>,
                                      BigOf(m[8] * Limb + m[7] - r * r))}}) :
                 r  \in {RootBits(m[8] * Limb + m[7], LimbBits - 1, 0)}}) :
                 up \in {IF (a.exp - 58) % 2 = 0 THEN 58 ELSE 59},
                 m  \in {BigShl(a.mant,
                                IF (a.exp - 58) % 2 = 0 THEN 58 ELSE 59)}}) :
        a \in {operand}})

(***************************************************************************)
(* Stats: the functions called on their own, on arrays of numbers.  An     *)
(* optional argument is None when omitted.                                 *)
(***************************************************************************)
\* T-Distribution two-tailed critical values for 95% confidence, and the
\* value for infinitely many degrees of freedom, in thousandths
TABLE ==
    <<12706, 4303, 3182, 2776, 2571, 2447, 2365, 2306, 2262, 2228,
      2201,  2179, 2160, 2145, 2131, 2120, 2110, 2101, 2093, 2086,
      2080,  2074, 2069, 2064, 2060, 2056, 2052, 2048, 2045, 2042>>
TINF == 1960
\* the literal n / 1000
Thousandths(n) == Decimal(n, 1000)

\* the array of the numbers xs[i] / unit
Scaled(xs, unit) == [i \in 1..Len(xs) |-> Decimal(xs[i], unit)]

\* sorted.sort((a, b) => a - b) on a copy of an array of numbers
Sorted(xs) ==
    LET n    == Len(xs)
        rank == [j \in 1..n |->
                   1 + Cardinality({k \in 1..n :
                          \/ Less(xs[k], xs[j])
                          \/ xs[k] = xs[j] /\ k < j})]
    IN  [i \in 1..n |-> xs[CHOOSE j \in 1..n : rank[j] = i]]

\* ((acc + xs[lo]) + ...) + xs[hi], the additions of reduce in their
\* order; NaN stays NaN whatever is added to it
RECURSIVE Reduce(_, _, _, _)
Reduce(acc, xs, lo, hi) ==
    IF lo > hi THEN acc
    ELSE IF lo = hi THEN Plus(acc, xs[lo])
    ELSE LET mid  == (lo + hi) \div 2
             left == Reduce(acc, xs, lo, mid)
         IN  IF left.kind = "nan" THEN NaN
             ELSE Reduce(left, xs, mid + 1, hi)

\* Stats.sum of an array of numbers
SumOf(xs) ==
    IF Len(xs) = 0 THEN Zero ELSE Reduce(xs[1], xs, 2, Len(xs))

\* min with 0 as the result for an empty array
StatsMin_ZeroWhenEmpty(xs) ==
    IF Len(xs) = 0 THEN Zero
    ELSE CHOOSE m \in {xs[i] : i \in 1..Len(xs)} :
            \A i \in 1..Len(xs) : Leq(m, xs[i])

\* Stats.max(arr) and Stats.min(arr): -Infinity and Infinity when empty
StatsMax(xs) ==
    IF Len(xs) = 0 THEN Infinity(TRUE)
    ELSE CHOOSE m \in {xs[i] : i \in 1..Len(xs)} :
            \A i \in 1..Len(xs) : Leq(xs[i], m)
StatsMin(xs) ==
    IF Len(xs) = 0 THEN Infinity(FALSE)
    ELSE CHOOSE m \in {xs[i] : i \in 1..Len(xs)} :
            \A i \in 1..Len(xs) : Leq(m, xs[i])

\* Stats.mean(arr, sum)
StatsMean(xs, sum) ==
    IF Len(xs) = 0 THEN Zero
    ELSE LET s == IF sum # None THEN sum[1] ELSE SumOf(xs)
         IN  DivBy(s, Len(xs))

\* arr.map(num => Math.pow(num - m, 2)), the square rounded once
SquaredDeviations(xs, m) ==
    [i \in 1..Len(xs) |->
        Once({Times(d, d) : d \in {Minus(xs[i], m)}})]

\* variance with the divisor arr.length whatever sample is
StatsVariance_Population(xs, sample, mean) ==
    IF Len(xs) = 0 THEN Zero
    ELSE LET m == IF mean # None THEN mean[1] ELSE StatsMean(xs, None)
         IN  DivBy(SumOf(SquaredDeviations(xs, m)), Len(xs))

\* Stats.variance(arr, sample, mean)
StatsVariance(xs, sample, mean) ==
    IF Len(xs) = 0 THEN Zero
    ELSE Once({DivBy(SumOf(SquaredDeviations(xs, m)), n) :
                 n \in {IF sample = Some(TRUE) THEN Len(xs) - 1 ELSE Len(xs)},
                 m \in {IF mean # None THEN mean[1]
                        ELSE StatsMean(xs, None)}})

\* Stats.standardDeviation(arr, sample, mean)
StatsStandardDeviation(xs, sample, mean) ==
    Sqrt(StatsVariance(xs, sample, mean))

\* Stats.standardErrorOfMean(arr, sample, std)
StatsStandardErrorOfMean(xs, sample, std) ==
    IF Len(xs) = 0 THEN Zero
    ELSE Once({Div(dev, Sqrt(Whole(Len(xs)))) :
                 dev \in {IF std # None THEN std[1]
                          ELSE StatsStandardDeviation(xs, sample, None)}})

\* Stats.ptile(arr, p), arr sorted
Ptile(sorted, p) ==
    IF Len(sorted) = 0 THEN Zero
    ELSE IF Leq(p, Zero) THEN sorted[1]
    ELSE IF Leq(Whole(1), p) THEN sorted[Len(sorted)]
    ELSE Once({Once({
             IF upper >= Len(sorted) THEN sorted[lower + 1]
             ELSE Plus(Times(sorted[lower + 1], Minus(Whole(1), weight)),
                       Times(sorted[upper + 1], weight)) :
             lower  \in {Floor(index)},
             upper  \in {Floor(index) + 1},
             weight \in {Mod1(index)}}) :
             index  \in {Times(Whole(Len(sorted) - 1), p)}})

\* percentile sorting the caller's array in place, without arr.slice()
StatsPercentile_InPlace(xs, p) ==
    [arr |-> Sorted(xs), value |-> Ptile(Sorted(xs), p)]

\* Stats.percentile(arr, p): sorts a copy.  Returns [arr, value], arr
\* being the caller's array after the call.
StatsPercentile(xs, p) ==
    [arr |-> xs, value |-> Ptile(Sorted(xs), p)]

\* Stats.median(arr)
StatsMedian(xs) == StatsPercentile(xs, Decimal(1, 2))

\* the table read at arr.length - 1, one entry too far
CriticalValue_OffByOne(n) ==
    IF n \in DOMAIN TABLE THEN Thousandths(TABLE[n]) ELSE Thousandths(TINF)

\* TABLE[(arr.length - 1) - 1] || TINF: entry i of TABLE is TABLE[i + 1]
CriticalValue(n) ==
    IF n - 1 \in DOMAIN TABLE THEN Thousandths(TABLE[n - 1])
    ELSE Thousandths(TINF)

\* Stats.marginOfError(arr, sample, sem)
StatsMarginOfError(xs, sample, sem) ==
    IF Len(xs) = 0 THEN Zero
    ELSE Once({Times(err, CriticalValue(Len(xs))) :
                 err \in {IF sem # None THEN sem[1]
                          ELSE StatsStandardErrorOfMean(xs, sample, None)}})

\* Stats.relativeMarginOfError(arr, sample, moe, mean)
StatsRelativeMarginOfError(xs, sample, moe, mean) ==
    IF Len(xs) = 0 THEN Zero
    ELSE Once({Times(Div(margin, avg), Whole(100)) :
                 margin \in {IF moe # None THEN moe[1]
                             ELSE StatsMarginOfError(xs, sample, None)},
                 avg    \in {IF mean # None THEN mean[1]
                             ELSE StatsMean(xs, None)}})

\* the Snapshot of Stats.compute from its constants; min and max are
\* sorted[0] and sorted[length - 1], undefined (None) for an empty array
SnapshotFields(sorted, sample, sum, mean, variance, stddev, error, margin) ==
    [cnt |-> Len(sorted),
     sum |-> sum,
     avg |-> mean,
     var |-> variance,
     std |-> stddev,
     sem |-> error,
     moe |-> margin,
     rme |-> StatsRelativeMarginOfError(sorted, sample,
                                        Some(margin), Some(mean)),
     min |-> IF sorted = <<>> THEN None ELSE Some(sorted[1]),
     max |-> IF sorted = <<>> THEN None ELSE Some(sorted[Len(sorted)]),
     p50 |-> Ptile(sorted, Decimal(50, 100)),
     p90 |-> Ptile(sorted, Decimal(90, 100)),
     p95 |-> Ptile(sorted, Decimal(95, 100)),
     p99 |-> Ptile(sorted, Decimal(99, 100))]

\* Stats.compute after the sort.  Its constants, each computed once, read
\* from the last line up: sum, mean, variance, stddev, error, margin.
SnapshotOf(xs, sorted, sample) ==
    Once({Once({Once({Once({Once({Once({
        SnapshotFields(sorted, sample, sum, mean, variance,
                       stddev, error, margin) :
        margin   \in {StatsMarginOfError(sorted, sample, Some(error))}}) :
        error    \in {StatsStandardErrorOfMean(sorted, sample,
                                               Some(stddev))}}) :
        stddev   \in {Sqrt(variance)}}) :
        variance \in {StatsVariance(xs, sample, Some(mean))}}) :
        mean     \in {StatsMean(xs, Some(sum))}}) :
        sum      \in {SumOf(sorted)}})

\* compute sorting the caller's array in place, without arr.slice()
Compute_InPlace(xs, sample) ==
    Once({[arr |-> sorted, value |-> SnapshotOf(sorted, sorted, sample)] :
            sorted \in {Sorted(xs)}})

\* Stats.compute(arr, sample) on an array of numbers, every field.
\* Returns [arr, value], arr being the caller's array after the call.
Compute(xs, sample) ==
    Once({[arr |-> xs, value |-> SnapshotOf(xs, sorted, sample)] :
            sorted \in {Sorted(xs)}})

(***************************************************************************)
(* Tracker: what both stores share.                                        *)
(***************************************************************************)
\* count dropping the counters of the other names
TrackerCount_NamedOnly(counters, name, val) ==
    LET v == IF val = None \/ val = Some(0) THEN 1 ELSE val[1]
    IN  IF name \in DOMAIN counters
        THEN (name :> counters[name] + v)
        ELSE (name :> v)

\* Tracker.count(name, val): val = val || 1, and 0 is falsy
TrackerCount(counters, name, val) ==
    LET v == IF val = None \/ val = Some(0) THEN 1 ELSE val[1]
    IN  IF name \in DOMAIN counters
        THEN [counters EXCEPT ![name] = @ + v]
        ELSE counters @@ (name :> v)

\* the sum of the values passed to count for each name, an omitted value
\* being 1: what the counters are to hold
Tally(sums, name, val) ==
    LET v == IF val = None THEN 1 ELSE val[1]
    IN  IF name \in DOMAIN sums
        THEN [sums EXCEPT ![name] = @ + v]
        ELSE sums @@ (name :> v)

\* Tracker.push(dists, name, val)
Push(dists, name, val) ==
    IF name \in DOMAIN dists
    THEN [dists EXCEPT ![name] = Append(@, val)]
    ELSE dists @@ (name :> <<val>>)

\* Tracker.compute(dists): one Snapshot per entry of the map
TrackerCompute(dists) ==
    [name \in DOMAIN dists |-> StatsCompute(dists[name])]

\* the map Tracker.compute was given as the call leaves it: every array
\* as Stats.compute leaves it
ComputeLeaves(dists) ==
    [name \in DOMAIN dists |-> SlicedArray(dists[name])]

(***************************************************************************)
(* UnboundedTracker: [distributions, counters].                            *)
(***************************************************************************)
UnboundedNew == [distributions |-> EmptyMap, counters |-> EmptyMap]

UnboundedAdd(u, name, val) ==
    [u EXCEPT !.distributions = Push(@, name, val)]

\* UnboundedTracker.stats().  Returns [st, stats].
UnboundedStats(u) ==
    [st    |-> [u EXCEPT !.distributions = ComputeLeaves(@)],
     stats |-> TrackerCompute(u.distributions)]

(***************************************************************************)
(* BoundedTracker: [buf, next: [tag, loc, dloc], tags, distributions,      *)
(* counters].                                                              *)
(***************************************************************************)
BoundedNew(buf) ==
    [buf           |-> buf,
     next          |-> [tag |-> 0, loc |-> 0, dloc |-> 0],
     tags          |-> EmptyMap,
     distributions |-> EmptyMap,
     counters      |-> EmptyMap]

\* add with `this.next.loc += 9` moved ahead of the two writes
BoundedAdd_AdvanceFirst(b, name, val) ==
    LET known == name \in DOMAIN b.tags
        tag   == IF known THEN b.tags[name] ELSE b.next.tag
        b1    == IF known THEN [b EXCEPT !.next.loc = @ + RecordSize]
                 ELSE [b EXCEPT !.tags = @ @@ (name :> tag),
                                !.next.tag = @ + 1,
                                !.next.loc = @ + RecordSize]
        w1    == WriteUInt8(b1.buf, tag, b.next.loc)
        b2    == [b1 EXCEPT !.buf = w1.buf]
        w2    == WriteDoubleBE(b2.buf, val, b.next.loc + 1)
    IN  IF ~w1.ok THEN [st |-> b1, threw |-> TRUE]
        ELSE IF ~w2.ok THEN [st |-> b2, threw |-> TRUE]
        ELSE [st |-> [b2 EXCEPT !.buf = w2.buf], threw |-> FALSE]

\* BoundedTracker.add(name, val), statement by statement: the tag is
\* looked up or assigned, then the tag byte is written, then the double,
\* then loc advances; a write that throws ends the call there.
\* Returns [st, threw].
BoundedAdd(b, name, val) ==
    LET known == name \in DOMAIN b.tags
        tag   == IF known THEN b.tags[name] ELSE b.next.tag
        b1    == IF known THEN b
                 ELSE [b EXCEPT !.tags = @ @@ (name :> tag),
                                !.next.tag = @ + 1]
        w1    == WriteUInt8(b1.buf, tag, b1.next.loc)
        b2    == [b1 EXCEPT !.buf = w1.buf]
        w2    == WriteDoubleBE(b2.buf, val, b2.next.loc + 1)
        b3    == [b2 EXCEPT !.buf = w2.buf]
    IN  IF ~w1.ok THEN [st |-> b1, threw |-> TRUE]
        ELSE IF ~w2.ok THEN [st |-> b2, threw |-> TRUE]
        ELSE [st    |-> [b3 EXCEPT !.next.loc = @ + RecordSize],
              threw |-> FALSE]

\* names[tag] = name for every entry of the tag table
TagNames(tags) ==
    [t \in {tags[n] : n \in DOMAIN tags} |->
        CHOOSE n \in DOMAIN tags : tags[n] = t]

\* the name a Record's tag stands for; -1 is names[tag] of a missing tag
NameOfTag(names, tag) == IF tag \in DOMAIN names THEN names[tag] ELSE -1

\* the while loop of BoundedTracker.stats: one Record per turn
RECURSIVE DecodeLoop(_, _)
DecodeLoop(b, names) ==
    IF b.next.dloc < b.next.loc
    THEN LET name == NameOfTag(names, ReadUInt8(b.buf, b.next.dloc))
             val  == ReadDoubleBE(b.buf, b.next.dloc + 1)
         IN  DecodeLoop([b EXCEPT !.distributions = Push(@, name, val),
                                  !.next.dloc = @ + RecordSize], names)
    ELSE b

\* stats without the decode cursor: every call decodes from offset 0
BoundedStats_Redecode(b) ==
    LET b1 == DecodeLoop([b EXCEPT !.next.dloc = 0], TagNames(b.tags))
    IN  [st    |-> [b1 EXCEPT !.distributions = ComputeLeaves(@)],
         stats |-> TrackerCompute(b1.distributions)]

\* BoundedTracker.stats(): decode what is new, then compute.
\* Returns [st, stats].
BoundedStats(b) ==
    LET b1 == IF b.next.dloc # b.next.loc
              THEN DecodeLoop(b, TagNames(b.tags)) ELSE b
    IN  [st    |-> [b1 EXCEPT !.distributions = ComputeLeaves(@)],
         stats |-> TrackerCompute(b1.distributions)]

(***************************************************************************)
(* Timer: [started, stopped, trace, store].  trace selects TracingTimer    *)
(* over BasicTimer; store names the Tracker that Tracker.create built.     *)
(***************************************************************************)
\* !x of an optional number: undefined and 0 are falsy
Falsy(x) == x = None \/ x = Some(0)

\* the test of Timer.start, `!this.started`
StartPending(t) == Falsy(t.started)

\* the test of Timer.stop, `!this.stopped`
StopPending(t) == Falsy(t.stopped)

\* the test of time(), `!this.started || this.stopped`: no timing
Inactive(t) == Falsy(t.started) \/ ~Falsy(t.stopped)

\* get duration()
Duration(t) ==
    IF t.started = None \/ t.stopped = None THEN None
    ELSE Some(t.stopped[1] - t.started[1])

\* `b|${name}` and `e|${name}`
MarkName(prefix, name) == <<prefix, name>>

\* one call the Timer makes on its collaborators: perf.now(),
\* perf.mark(mark), perf.measure(name, startMark, endMark) and
\* tracker.add(name, val)
Event(ev, name, val, args) ==
    [ev |-> ev, name |-> name, val |-> val, args |-> args]
NowEvent == Event("now", -1, 0, <<>>)
MarkEvent(mark) == Event("mark", -1, 0, <<mark>>)
MeasureEvent(name, startMark, endMark) ==
    Event("measure", name, 0, <<startMark, endMark>>)
AddEvent(name, val) == Event("add", name, val, <<>>)

\* what time() returns: IDENTITY, or the closure over name and begin;
\* inWindow notes whether start() had been called, and stop() not after
\* it, when time() was called
Callback(kind, name, begin, inWindow) ==
    [kind |-> kind, name |-> name, begin |-> begin, inWindow |-> inWindow]
IDENTITY(inWindow) == Callback("identity", -1, 0, inWindow)

(***************************************************************************)
(* Tracer: [traceEvents, tracing].  traceEvents tells whether a            *)
(* trace-event provider was supplied; tracing is None or the session       *)
(* createTracing returned, [enabled].                                      *)
(***************************************************************************)
TracerNew(traceEvents) == [traceEvents |-> traceEvents, tracing |-> None]

\* traceEvents.createTracing({categories}): a session, not yet enabled
CreateTracing(categories) == [enabled |-> FALSE]

\* tracing.enable() and tracing.disable()
TracingEnable(tracing) == [tracing EXCEPT !.enabled = TRUE]
TracingDisable(tracing) == [tracing EXCEPT !.enabled = FALSE]

\* get enabled(): !!(this.tracing && this.tracing.enabled)
TracerEnabled(t) == t.tracing # None /\ t.tracing[1].enabled

\* categories = categories || ['node.perf']
Categories(categories) ==
    IF categories = None THEN <<"node.perf">> ELSE categories[1]

\* the calls the Tracer makes on its provider and on the session
CreateTracingEvent(categories) == Event("createTracing", -1, 0, categories)
TracingEnableEvent == Event("tracing.enable", -1, 0, <<>>)
TracingDisableEvent == Event("tracing.disable", -1, 0, <<>>)

\* enable without the test of this.enabled: every call opens a session
TracerEnable_Reopen(t, categories) ==
    IF ~t.traceEvents THEN [st |-> t, events |-> <<>>]
    ELSE LET cats    == Categories(categories)
             tracing == TracingEnable(CreateTracing(cats))
         IN  [st     |-> [t EXCEPT !.tracing = Some(tracing)],
              events |-> <<CreateTracingEvent(cats), TracingEnableEvent>>]

\* Tracer.enable(categories).  Returns [st, events].
TracerEnable(t, categories) ==
    IF ~t.traceEvents \/ TracerEnabled(t) THEN [st |-> t, events |-> <<>>]
    ELSE LET cats    == Categories(categories)
             tracing == TracingEnable(CreateTracing(cats))
         IN  [st     |-> [t EXCEPT !.tracing = Some(tracing)],
              events |-> <<CreateTracingEvent(cats), TracingEnableEvent>>]

\* Tracer.disable().  Returns [st, events].
TracerDisable(t) ==
    IF t.tracing = None \/ ~TracerEnabled(t) THEN [st |-> t, events |-> <<>>]
    ELSE [st     |-> [t EXCEPT !.tracing = None],
          events |-> <<TracingDisableEvent>>]

\* the trace flag ignored: the Tracer alone decides
TimerTrace_TracerOnly(trace, t) == TracerEnabled(t)

\* Timer.create: an explicit trace option decides, else TRACER.enabled
TimerTrace(trace, t) ==
    IF trace # None THEN trace[1] ELSE TracerEnabled(t)

(***************************************************************************)
(* State.                                                                  *)
(***************************************************************************)
VARIABLES
    bt,        \* the BoundedTracker
    ut,        \* the UnboundedTracker
    workload,  \* "mixed" | "distinct" | "counting" | "timer" | "tracer" |
               \* "made": what
               \* the caller does
    nadds,     \* add calls made so far (failed ones included)
    ncounts,   \* count calls made so far
    fed,       \* name -> the values passed to add for it, in call order
    ret,       \* the last Tracker call and what it returned
    timer,     \* the Timer
    perf,      \* the clock: the last value now() returned
    callbacks, \* the callbacks time() has returned
    calls,     \* how the Timer was created, and which of start() and
               \* stop() were called, in what order
    obs,       \* the last Timer or Tracer call: what it called and returned
    counted,   \* name -> the sum of the values passed to count for it
    seen,      \* the Tracker's stats() calls since its last add
    tracer,    \* the TRACER
    arr,       \* the array handed to the functions of Stats
    out        \* the last call of a function of Stats and what it returned

vars == <<bt, ut, workload, nadds, ncounts, fed, ret,
          timer, perf, callbacks, calls, obs,
          counted, seen, tracer, arr, out>>

trackerVars == <<bt, ut, workload, nadds, ncounts, fed, ret, counted, seen>>
timerVars == <<timer, perf, callbacks, calls, obs>>
statsVars == <<arr, out>>

NoCall == [op |-> "none", threw |-> FALSE,
           bounded |-> EmptyMap, unbounded |-> EmptyMap]

\* arg is the argument of the call where the model looks at it: the trace
\* option of Timer.create, the categories of Tracer.enable
NoObs == [op |-> "none", name |-> -1, events |-> <<>>, threw |-> FALSE,
          cb |-> None, value |-> None, stats |-> EmptyMap, arg |-> None]

\* option is the trace option Timer.create was given, None when omitted
NoCalls == [start |-> FALSE, stop |-> FALSE, stopAfterStart |-> FALSE,
            option |-> None]

\* n counts the stats() calls since the last add, up to 2; stats is what
\* the last of them returned
NoSeen == [n |-> 0, stats |-> EmptyMap]

\* given is the array as it was when the function was called
NoOut == [fn |-> "none", sample |-> None, p |-> None, sem |-> None,
          given |-> <<>>, value |-> None]

TimerNew(trace, store) ==
    [started |-> None, stopped |-> None, trace |-> trace, store |-> store]

(***************************************************************************)
(* Spec: Tracker.create({buf}) and Tracker.create(), fed the same calls.   *)
(*   mixed     a small buffer; any name of Names, any value of Values      *)
(*   distinct  a buffer of BigRecords Records; every add uses a name not   *)
(*             used before, and stats is asked for at the end of the run   *)
(*   counting  a buffer of one Record; as mixed, with MaxCounters counts   *)
(***************************************************************************)
Init ==
    /\ workload \in {"mixed", "distinct", "counting"}
    /\ \E cap \in (CASE workload = "mixed"    -> SmallCaps
                    []   workload = "distinct" -> {BigCap}
                    []   workload = "counting" -> {RecordSize}),
          fill \in Fills :
            bt = BoundedNew([i \in 1..cap |-> fill])
    /\ ut = UnboundedNew
    /\ nadds = 0
    /\ ncounts = 0
    /\ fed = EmptyMap
    /\ ret = NoCall
    /\ counted = EmptyMap
    /\ seen = NoSeen
    /\ timer = TimerNew(FALSE, "unbounded")
    /\ perf = [now |-> 0]
    /\ callbacks = {}
    /\ calls = NoCalls
    /\ obs = NoObs
    /\ tracer = TracerNew(TRUE)
    /\ arr = <<>>
    /\ out = NoOut

Capacity == Len(bt.buf)

\* the most add calls a run makes
MaxAdds == (Capacity \div RecordSize) + MaxExtraAdds

NameChoices == IF workload = "distinct" THEN {nadds} ELSE Names
ValueChoices == IF workload = "distinct" THEN {10} ELSE Values

\* the most count calls a run makes
CountLimit == IF workload = "counting" THEN MaxCounters ELSE MaxCounts

\* tracker.add(name, val) on both stores
Add ==
    /\ workload \in {"mixed", "distinct", "counting"}
    /\ nadds < MaxAdds
    /\ \E name \in NameChoices, val \in ValueChoices :
        LET r == BoundedAdd(bt, name, val)
        IN  /\ bt' = r.st
            /\ ut' = UnboundedAdd(ut, name, val)
            /\ fed' = Push(fed, name, val)
            /\ ret' = [NoCall EXCEPT !.op = "add", !.threw = r.threw]
    /\ nadds' = nadds + 1
    /\ seen' = NoSeen
    /\ UNCHANGED <<workload, ncounts, counted>>
    /\ UNCHANGED <<timerVars, tracer, statsVars>>

\* tracker.stats() on both stores
Stats ==
    /\ \/ workload \in {"mixed", "counting"}
       \/ workload = "distinct" /\ nadds > UInt8Max
    /\ LET r == BoundedStats(bt)
           u == UnboundedStats(ut)
       IN  /\ bt' = r.st
           /\ ut' = u.st
           /\ ret' = [NoCall EXCEPT !.op = "stats",
                                    !.bounded = r.stats,
                                    !.unbounded = u.stats]
           /\ seen' = [n |-> IF seen.n < 2 THEN seen.n + 1 ELSE 2,
                       stats |-> r.stats]
    /\ UNCHANGED <<workload, nadds, ncounts, fed, counted>>
    /\ UNCHANGED <<timerVars, tracer, statsVars>>

\* tracker.count(name, val) on both stores
Count ==
    /\ workload \in {"mixed", "counting"}
    /\ ncounts < CountLimit
    /\ \E name \in Names, val \in CountValues :
        /\ bt' = [bt EXCEPT !.counters = TrackerCount(@, name, val)]
        /\ ut' = [ut EXCEPT !.counters = TrackerCount(@, name, val)]
        /\ counted' = Tally(counted, name, val)
    /\ ncounts' = ncounts + 1
    /\ ret' = [NoCall EXCEPT !.op = "count"]
    /\ UNCHANGED <<workload, nadds, fed, seen>>
    /\ UNCHANGED <<timerVars, tracer, statsVars>>

Next == Add \/ Stats \/ Count

Spec == Init /\ [][Next]_vars

(***************************************************************************)
(* TimerSpec: Timer.create({buf, trace, perf}) with a clock whose now()    *)
(* never goes back and starts at 0 or later.                               *)
(***************************************************************************)
TimerInit ==
    /\ workload = "timer"
    /\ \E trace \in BOOLEAN, store \in {"bounded", "unbounded"} :
        /\ timer = TimerNew(trace, store)
        /\ calls = [NoCalls EXCEPT !.option = Some(trace)]
        /\ \E cap \in (IF store = "bounded" THEN TimerCaps ELSE {0}),
              fill \in TimerFills :
                bt = BoundedNew([i \in 1..cap |-> fill])
    /\ ut = UnboundedNew
    /\ nadds = 0
    /\ ncounts = 0
    /\ fed = EmptyMap
    /\ ret = NoCall
    /\ counted = EmptyMap
    /\ seen = NoSeen
    /\ perf = [now |-> 0]
    /\ callbacks = {}
    /\ obs = NoObs
    /\ tracer = TracerNew(TRUE)
    /\ arr = <<>>
    /\ out = NoOut

\* a Timer exists: TimerSpec starts with one ("timer"), TracerSpec has
\* one once Timer.create was called ("made")
HasTimer == workload \in {"timer", "made"}

\* the names and the count values the caller of the Timer uses
TimerNames == IF workload = "timer" THEN Names ELSE {0}
TimerCountValues == IF workload = "timer" THEN CountValues ELSE {<<>>}

\* the values the next now() may return
Ticks == perf.now..MaxClock

\* start() was called, and stop() was not called after it
InWindow == calls.start /\ ~calls.stopAfterStart

\* timer.start()
Start ==
    /\ HasTimer
    /\ IF StartPending(timer)
       THEN \E t \in Ticks :
               /\ timer' = [timer EXCEPT !.started = Some(t)]
               /\ perf' = [now |-> t]
               /\ obs' = [NoObs EXCEPT !.op = "start", !.events = <<NowEvent>>]
       ELSE /\ obs' = [NoObs EXCEPT !.op = "start"]
            /\ UNCHANGED <<timer, perf>>
    /\ calls' = [calls EXCEPT !.start = TRUE]
    /\ UNCHANGED <<callbacks>>
    /\ UNCHANGED <<trackerVars, tracer, statsVars>>

\* timer.stop()
Stop ==
    /\ HasTimer
    /\ IF StopPending(timer)
       THEN \E t \in Ticks :
               /\ timer' = [timer EXCEPT !.stopped = Some(t)]
               /\ perf' = [now |-> t]
               /\ obs' = [NoObs EXCEPT !.op = "stop", !.events = <<NowEvent>>]
       ELSE /\ obs' = [NoObs EXCEPT !.op = "stop"]
            /\ UNCHANGED <<timer, perf>>
    /\ calls' = [calls EXCEPT !.stop = TRUE,
                              !.stopAfterStart = @ \/ calls.start]
    /\ UNCHANGED <<callbacks>>
    /\ UNCHANGED <<trackerVars, tracer, statsVars>>

\* timer.time(name), BasicTimer and TracingTimer
Time ==
    /\ HasTimer
    /\ \E name \in TimerNames :
        IF Inactive(timer)
        THEN LET cb == IDENTITY(InWindow)
             IN  /\ Cardinality(callbacks \cup {cb}) <= MaxCallbacks
                 /\ callbacks' = callbacks \cup {cb}
                 /\ obs' = [NoObs EXCEPT !.op = "time", !.name = name,
                                         !.cb = Some(cb)]
                 /\ UNCHANGED perf
        ELSE \E t \in Ticks :
             LET cb == Callback("timed", name, t, InWindow)
             IN  /\ Cardinality(callbacks \cup {cb}) <= MaxCallbacks
                 /\ callbacks' = callbacks \cup {cb}
                 /\ perf' = [now |-> t]
                 /\ obs' = [NoObs EXCEPT
                       !.op = "time", !.name = name, !.cb = Some(cb),
                       !.events = IF timer.trace
                                  THEN <<MarkEvent(MarkName("b", name)),
                                         NowEvent>>
                                  ELSE <<NowEvent>>]
    /\ UNCHANGED <<timer, calls>>
    /\ UNCHANGED <<trackerVars, tracer, statsVars>>

\* this.tracker.add(name, val) on the Timer's store.  Returns
\* [bt, ut, threw].
TimerAdd(name, val) ==
    IF timer.store = "bounded"
    THEN LET r == BoundedAdd(bt, name, val)
         IN  [bt |-> r.st, ut |-> ut, threw |-> r.threw]
    ELSE [bt |-> bt, ut |-> UnboundedAdd(ut, name, val), threw |-> FALSE]

\* the events of a timed callback: now(), add, and under tracing mark and
\* measure, which an add that throws cuts short
CallEvents(cb, val, threw) ==
    <<NowEvent, AddEvent(cb.name, val)>> \o
    (IF timer.trace /\ ~threw
     THEN <<MarkEvent(MarkName("e", cb.name)),
            MeasureEvent(cb.name, MarkName("b", cb.name),
                         MarkName("e", cb.name))>>
     ELSE <<>>)

\* cb(a) for a callback time() returned
Call ==
    /\ HasTimer
    /\ \E cb \in callbacks, a \in Payloads :
        IF cb.kind = "identity"
        THEN /\ obs' = [NoObs EXCEPT !.op = "call", !.cb = Some(cb),
                                     !.value = Some(a)]
             /\ UNCHANGED <<perf, trackerVars>>
        ELSE /\ nadds < MaxSamples
             /\ \E t \in Ticks :
                LET val == t - cb.begin
                    r   == TimerAdd(cb.name, val)
                IN  /\ perf' = [now |-> t]
                    /\ bt' = r.bt
                    /\ ut' = r.ut
                    /\ nadds' = nadds + 1
                    /\ fed' = Push(fed, cb.name, val)
                    /\ obs' = [NoObs EXCEPT
                          !.op = "call", !.name = cb.name,
                          !.cb = Some(cb), !.threw = r.threw,
                          !.events = CallEvents(cb, val, r.threw),
                          !.value = IF r.threw THEN None ELSE Some(a)]
                    /\ UNCHANGED <<workload, ncounts, ret, counted, seen>>
    /\ UNCHANGED <<timer, callbacks, calls, tracer, statsVars>>

\* timer.count(name, val): this.tracker.count(name, val)
TimerCount ==
    /\ HasTimer
    /\ ncounts < MaxCounts
    /\ \E name \in TimerNames, val \in TimerCountValues :
        /\ IF timer.store = "bounded"
           THEN /\ bt' = [bt EXCEPT !.counters = TrackerCount(@, name, val)]
                /\ UNCHANGED ut
           ELSE /\ ut' = [ut EXCEPT !.counters = TrackerCount(@, name, val)]
                /\ UNCHANGED bt
        /\ counted' = Tally(counted, name, val)
        /\ obs' = [NoObs EXCEPT !.op = "count", !.name = name]
    /\ ncounts' = ncounts + 1
    /\ UNCHANGED <<workload, nadds, fed, ret, seen>>
    /\ UNCHANGED <<timer, perf, callbacks, calls, tracer, statsVars>>

\* timer.stats(): this.tracker.stats()
TimerStats ==
    /\ HasTimer
    /\ IF timer.store = "bounded"
       THEN LET r == BoundedStats(bt)
            IN  /\ bt' = r.st
                /\ obs' = [NoObs EXCEPT !.op = "stats", !.stats = r.stats]
                /\ UNCHANGED ut
       ELSE LET u == UnboundedStats(ut)
            IN  /\ ut' = u.st
                /\ obs' = [NoObs EXCEPT !.op = "stats", !.stats = u.stats]
                /\ UNCHANGED bt
    /\ UNCHANGED <<workload, nadds, ncounts, fed, ret, counted, seen>>
    /\ UNCHANGED <<timer, perf, callbacks, calls, tracer, statsVars>>

TimerNext == Start \/ Stop \/ Time \/ Call \/ TimerCount \/ TimerStats

TimerSpec == TimerInit /\ [][TimerNext]_vars

(***************************************************************************)
(* TracerSpec: the TRACER singleton, with or without a trace-event         *)
(* provider, Timer.create(options) reading it when options.trace is        *)
(* omitted, and the Timer so made.                                         *)
(***************************************************************************)
TracerInit ==
    /\ workload = "tracer"
    /\ \E traceEvents \in BOOLEAN : tracer = TracerNew(traceEvents)
    /\ timer = TimerNew(FALSE, "unbounded")
    /\ bt = BoundedNew(<<>>)
    /\ ut = UnboundedNew
    /\ nadds = 0
    /\ ncounts = 0
    /\ fed = EmptyMap
    /\ ret = NoCall
    /\ counted = EmptyMap
    /\ seen = NoSeen
    /\ perf = [now |-> 0]
    /\ callbacks = {}
    /\ calls = NoCalls
    /\ obs = NoObs
    /\ arr = <<>>
    /\ out = NoOut

\* TRACER.enable(categories)
Enable ==
    /\ workload \in {"tracer", "made"}
    /\ \E categories \in CategoryChoices :
        LET r == TracerEnable(tracer, categories)
        IN  /\ tracer' = r.st
            /\ obs' = [NoObs EXCEPT !.op = "enable", !.events = r.events,
                                    !.arg = categories]
    /\ UNCHANGED <<timer, perf, callbacks, calls>>
    /\ UNCHANGED <<trackerVars, statsVars>>

\* TRACER.disable()
Disable ==
    /\ workload \in {"tracer", "made"}
    /\ LET r == TracerDisable(tracer)
       IN  /\ tracer' = r.st
           /\ obs' = [NoObs EXCEPT !.op = "disable", !.events = r.events]
    /\ UNCHANGED <<timer, perf, callbacks, calls>>
    /\ UNCHANGED <<trackerVars, statsVars>>

\* Timer.create({buf, trace, perf}): Tracker.create picks the store, the
\* trace option or TRACER.enabled picks TracingTimer or BasicTimer
Create ==
    /\ workload = "tracer"
    /\ \E trace \in TraceOptions, buf \in BufOptions :
        /\ timer' = TimerNew(TimerTrace(trace, tracer),
                             IF buf # None THEN "bounded" ELSE "unbounded")
        /\ bt' = BoundedNew(IF buf # None THEN buf[1] ELSE <<>>)
        /\ calls' = [NoCalls EXCEPT !.option = trace]
        /\ obs' = [NoObs EXCEPT !.op = "create", !.arg = trace]
    /\ workload' = "made"
    /\ UNCHANGED <<ut, nadds, ncounts, fed, ret, counted, seen>>
    /\ UNCHANGED <<perf, callbacks, tracer, statsVars>>

TracerNext ==
    \/ Enable \/ Disable \/ Create
    \/ Start \/ Stop \/ Time \/ Call \/ TimerCount \/ TimerStats

TracerSpec == TracerInit /\ [][TracerNext]_vars

(***************************************************************************)
(* StatsSpec: one array and one call of a function of Stats on it.         *)
(***************************************************************************)
\* array(num) of the tests: 1..num, the even places counted down from num
TestArray(num) ==
    [i \in 1..num |-> IF i % 2 = 1 THEN i ELSE num - (i - 2)]

\* the arrays of 0 .. MaxLen elements of StatValues
SmallArrays ==
    UNION {[1..n -> StatValues] : n \in 0..MaxLen}

\* the percentiles asked for: 0, 1, below 0, above 1 and between
Percentiles ==
    {Whole(0), Whole(1), Whole(-1), Whole(2),
     Decimal(1, 10), Decimal(1, 2), Decimal(6, 10), Decimal(9, 10)}

\* the standard errors passed to marginOfError; <<>> is omitted
StdErrors == {<<>>, <<Whole(1)>>, <<Decimal(3, 2)>>}

\* the elements of the arrays are whole numbers or tenths
Units == {1, 10}

StatsInit ==
    /\ workload = "stats"
    /\ arr \in {Scaled(xs, unit) : xs \in SmallArrays, unit \in Units}
               \cup {Scaled(TestArray(n), 1) : n \in TestSizes}
    /\ out = NoOut
    /\ bt = BoundedNew(<<>>)
    /\ ut = UnboundedNew
    /\ nadds = 0
    /\ ncounts = 0
    /\ fed = EmptyMap
    /\ ret = NoCall
    /\ counted = EmptyMap
    /\ seen = NoSeen
    /\ timer = TimerNew(FALSE, "unbounded")
    /\ perf = [now |-> 0]
    /\ callbacks = {}
    /\ calls = NoCalls
    /\ obs = NoObs
    /\ tracer = TracerNew(TRUE)

\* Stats.variance(arr) and Stats.variance(arr, sample)
Variance ==
    /\ workload = "stats"
    /\ out = NoOut
    /\ \E sample \in SampleOptions :
        out' = [NoOut EXCEPT !.fn = "variance", !.sample = sample,
                            !.given = arr,
                            !.value = Some(StatsVariance(arr, sample, None))]
    /\ UNCHANGED <<arr, trackerVars, timerVars, tracer>>

\* Stats.percentile(arr, p)
Percentile ==
    /\ workload = "stats"
    /\ out = NoOut
    /\ \E p \in Percentiles :
        \E r \in {StatsPercentile(arr, p)} :
            /\ arr' = r.arr
            /\ out' = [NoOut EXCEPT !.fn = "percentile", !.p = Some(p),
                                    !.given = arr,
                                    !.value = Some(r.value)]
    /\ UNCHANGED <<trackerVars, timerVars, tracer>>

\* Stats.marginOfError(arr, sample, sem)
MarginOfError ==
    /\ workload = "stats"
    /\ out = NoOut
    /\ \E sample \in SampleOptions, sem \in StdErrors :
        out' = [NoOut EXCEPT
                  !.fn = "marginOfError", !.sample = sample,
                  !.sem = sem, !.given = arr,
                  !.value = Some(StatsMarginOfError(arr, sample, sem))]
    /\ UNCHANGED <<arr, trackerVars, timerVars, tracer>>

\* Stats.sum(arr)
Sum ==
    /\ workload = "stats"
    /\ out = NoOut
    /\ out' = [NoOut EXCEPT !.fn = "sum", !.given = arr,
                            !.value = Some(SumOf(arr))]
    /\ UNCHANGED <<arr, trackerVars, timerVars, tracer>>

\* Stats.mean(arr)
Mean ==
    /\ workload = "stats"
    /\ out = NoOut
    /\ out' = [NoOut EXCEPT !.fn = "mean", !.given = arr,
                            !.value = Some(StatsMean(arr, None))]
    /\ UNCHANGED <<arr, trackerVars, timerVars, tracer>>

\* Stats.median(arr)
Median ==
    /\ workload = "stats"
    /\ out = NoOut
    /\ \E r \in {StatsMedian(arr)} :
           /\ arr' = r.arr
           /\ out' = [NoOut EXCEPT !.fn = "median", !.given = arr,
                                   !.value = Some(r.value)]
    /\ UNCHANGED <<trackerVars, timerVars, tracer>>

\* Stats.min(arr)
Minimum ==
    /\ workload = "stats"
    /\ out = NoOut
    /\ out' = [NoOut EXCEPT !.fn = "min", !.given = arr,
                            !.value = Some(StatsMin(arr))]
    /\ UNCHANGED <<arr, trackerVars, timerVars, tracer>>

\* Stats.max(arr)
Maximum ==
    /\ workload = "stats"
    /\ out = NoOut
    /\ out' = [NoOut EXCEPT !.fn = "max", !.given = arr,
                            !.value = Some(StatsMax(arr))]
    /\ UNCHANGED <<arr, trackerVars, timerVars, tracer>>

\* Stats.standardDeviation(arr) and Stats.standardDeviation(arr, sample)
StandardDeviation ==
    /\ workload = "stats"
    /\ out = NoOut
    /\ \E sample \in SampleOptions :
        out' = [NoOut EXCEPT
                  !.fn = "standardDeviation", !.sample = sample,
                  !.given = arr,
                  !.value = Some(StatsStandardDeviation(arr, sample, None))]
    /\ UNCHANGED <<arr, trackerVars, timerVars, tracer>>

\* Stats.standardErrorOfMean(arr) and Stats.standardErrorOfMean(arr, sample)
StandardErrorOfMean ==
    /\ workload = "stats"
    /\ out = NoOut
    /\ \E sample \in SampleOptions :
        out' = [NoOut EXCEPT
                  !.fn = "standardErrorOfMean", !.sample = sample,
                  !.given = arr,
                  !.value = Some(StatsStandardErrorOfMean(arr, sample, None))]
    /\ UNCHANGED <<arr, trackerVars, timerVars, tracer>>

\* Stats.relativeMarginOfError(arr) and
\* Stats.relativeMarginOfError(arr, sample)
RelativeMarginOfError ==
    /\ workload = "stats"
    /\ out = NoOut
    /\ \E sample \in SampleOptions :
        out' = [NoOut EXCEPT
                  !.fn = "relativeMarginOfError", !.sample = sample,
                  !.given = arr,
                  !.value = Some(StatsRelativeMarginOfError(arr, sample,
                                                            None, None))]
    /\ UNCHANGED <<arr, trackerVars, timerVars, tracer>>

\* Stats.compute(arr) and Stats.compute(arr, sample)
Snapshot ==
    /\ workload = "stats"
    /\ out = NoOut
    /\ \E sample \in SampleOptions :
        \E r \in {Compute(arr, sample)} :
            /\ arr' = r.arr
            /\ out' = [NoOut EXCEPT !.fn = "compute", !.sample = sample,
                                    !.given = arr,
                                    !.value = Some(r.value)]
    /\ UNCHANGED <<trackerVars, timerVars, tracer>>

StatsNext ==
    \/ Sum \/ Mean \/ Median \/ Minimum \/ Maximum
    \/ Variance \/ StandardDeviation \/ StandardErrorOfMean
    \/ MarginOfError \/ RelativeMarginOfError
    \/ Percentile \/ Snapshot

StatsSpec == StatsInit /\ [][StatsNext]_vars

(***************************************************************************)
(* Claims about the stores (Spec).                                         *)
(***************************************************************************)
\* the sum of a sequence, front to back
RECURSIVE Total(_)
Total(s) == IF s = <<>> THEN 0 ELSE Head(s) + Total(Tail(s))

\* every add call so far fits the buffer
FitsCapacity == nadds * RecordSize <= Capacity

\* the names passed to add so far
DistinctNames == Cardinality(DOMAIN fed)

\* a stats() result has exactly the names added, each with the count and
\* the sum of the values added for it
MatchesFed(stats) ==
    /\ DOMAIN stats = DOMAIN fed
    /\ \A n \in DOMAIN fed :
        /\ stats[n].cnt = Len(fed[n])
        /\ stats[n].sum = Total(fed[n])

WholeRecords == Capacity % RecordSize = 0
RecordCapacity == Capacity \div RecordSize

\* C2 as stated: on a buffer of exactly 9*k bytes, the (k+1)-th add raises
\* an error and no earlier add does, whatever names and values are added.
C2_AsStated ==
    (ret.op = "add" /\ WholeRecords /\ nadds <= RecordCapacity + 1)
        => (ret.threw <=> nadds = RecordCapacity + 1)

\* C2 amended: the same, for add sequences with at most 256 distinct names.
C2_OverflowOnNextAdd ==
    (ret.op = "add" /\ WholeRecords /\ nadds <= RecordCapacity + 1
        /\ DistinctNames <= UInt8Max + 1)
        => (ret.threw <=> nadds = RecordCapacity + 1)

\* C2 witness: a buffer of two Records has taken two adds and refused the
\* third
C2_Witness ==
    /\ ret.op = "add" /\ ret.threw
    /\ WholeRecords /\ RecordCapacity = 2 /\ nadds = 3
    /\ bt.next.loc = 2 * RecordSize

\* the step is an add call that found no room for a Record and raised
OverflowStep ==
    /\ ret'.op = "add" /\ ret'.threw /\ nadds' = nadds + 1
    /\ bt.next.loc + RecordSize > Capacity

\* C3 as stated: an add that fails with a buffer overflow leaves the tag
\* table, the next tag, writeOffset, decodeOffset, the materialized
\* distributions and the counters as they were.
C3_AsStated ==
    [][OverflowStep =>
        /\ bt'.tags = bt.tags
        /\ bt'.next = bt.next
        /\ bt'.distributions = bt.distributions
        /\ bt'.counters = bt.counters]_vars

\* C4 as stated: an add that would exceed the capacity writes no byte of
\* the buffer, whatever the capacity.
C4_AsStated ==
    [][OverflowStep => bt'.buf = bt.buf]_vars

\* C12 as stated: after any sequence of count calls each counter holds the
\* sum of the values passed for its name, 0 included and 1 for an omitted
\* value, and a name never counted has no counter; the Timer's count does
\* the same on its store.
C12_AsStated ==
    IF HasTimer
    THEN (IF timer.store = "bounded" THEN bt.counters ELSE ut.counters)
             = counted
    ELSE bt.counters = counted /\ ut.counters = counted

\* C13: a stats() call on the Bounded store that follows another one with
\* no add in between returns the Snapshots the earlier call returned, and
\* decodes nothing: decodeOffset and the materialized distributions stay
\* as they were.
C13_StatsIdempotent ==
    [][(ret'.op = "stats" /\ seen.n >= 1) =>
        /\ ret'.bounded = seen.stats
        /\ bt'.next.dloc = bt.next.dloc
        /\ bt'.distributions = bt.distributions]_vars

\* C13 witness: stats() was called twice since the last add, with two
\* Records decoded and a Snapshot returned
C13_Witness ==
    /\ ret.op = "stats" /\ seen.n = 2
    /\ bt.next.dloc = 2 * RecordSize
    /\ DOMAIN ret.bounded # {}
    /\ ret.bounded = seen.stats

\* 0 <= decodeOffset <= writeOffset <= capacity
CursorsOrdered ==
    /\ 0 <= bt.next.dloc
    /\ bt.next.dloc <= bt.next.loc
    /\ bt.next.loc <= Capacity

\* C14: in every state of a Bounded store, after any add (successful or
\* failing), stats and count calls, 0 <= decodeOffset <= writeOffset <=
\* capacity, and no call decreases decodeOffset.
C14_CursorsOrdered ==
    []CursorsOrdered /\ [][bt'.next.dloc >= bt.next.dloc]_vars

\* C14 witness: a full buffer of two Records and 4 spare bytes, one Record
\* decoded, has just refused an add
C14_Witness ==
    /\ ret.op = "add" /\ ret.threw
    /\ Capacity = 2 * RecordSize + 4
    /\ bt.next.loc = 2 * RecordSize
    /\ bt.next.dloc = RecordSize

\* C15 as stated: however many distinct names were passed to add, the tag
\* table maps them one-to-one to codes in 0..255, handed out from 0 upwards
\* in first-seen order (name k of the distinct workload is the k-th seen).
C15_AsStated ==
    /\ \A n \in DOMAIN bt.tags : bt.tags[n] \in 0..UInt8Max
    /\ \A n1, n2 \in DOMAIN bt.tags : bt.tags[n1] = bt.tags[n2] => n1 = n2
    /\ {bt.tags[n] : n \in DOMAIN bt.tags}
           = 0..(Cardinality(DOMAIN bt.tags) - 1)
    /\ workload = "distinct" => \A n \in DOMAIN bt.tags : bt.tags[n] = n

\* every add call so far succeeded: each advanced writeOffset by a Record
AllAddsSucceeded == bt.next.loc = nadds * RecordSize

\* C23: for any interleaving of successful add calls and stats calls on a
\* Bounded store every Record is decoded exactly once: after each stats()
\* decodeOffset = writeOffset, and every name's materialized distribution
\* is the sequence of the values added under that name, in add order.
C23_DecodedOnce ==
    (ret.op = "stats" /\ AllAddsSucceeded) =>
        /\ bt.next.dloc = bt.next.loc
        /\ bt.distributions = fed

\* C23 witness: stats() called again with no add in between, after two
\* successful adds under two names, each name holding its one value
C23_Witness ==
    /\ ret.op = "stats" /\ seen.n = 2 /\ AllAddsSucceeded
    /\ nadds = 2 /\ bt.next.dloc = 2 * RecordSize
    /\ Cardinality(DOMAIN fed) = 2
    /\ bt.distributions = fed

\* the step is an add call that succeeded
SuccessfulAdd == nadds' = nadds + 1 /\ ~ret'.threw

\* the name and the value the add call of the step was given
AddedName ==
    CHOOSE n \in DOMAIN fed' : n \notin DOMAIN fed \/ fed'[n] # fed[n]
AddedValue == fed'[AddedName][Len(fed'[AddedName])]

\* the step leaves the byte at offset i of the buffer as it was
ByteKept(i) == bt'.buf[i + 1] = bt.buf[i + 1]

\* the step writes one Record at writeOffset, the tag of the added name and
\* then its value, and advances writeOffset by 9
RecordWritten ==
    /\ bt'.next.loc = bt.next.loc + RecordSize
    /\ ReadUInt8(bt'.buf, bt.next.loc) = bt'.tags[AddedName]
    /\ \A i \in 1..8 :
          bt'.buf[bt.next.loc + 1 + i] = DoubleBytes(AddedValue)[i]

\* writeOffset is 9 * the number of successful adds: 0 at first, 9 more
\* with each of them and unchanged by any other call; each successful add
\* writes its Record at the writeOffset it found
RecordsInOrder ==
    /\ [](nadds = 0 => bt.next.loc = 0)
    /\ [][IF SuccessfulAdd THEN RecordWritten
          ELSE bt'.next.loc = bt.next.loc]_vars

\* C24 as stated: after k successful add calls writeOffset = 9 * k and
\* Record i, at offset 9 * i, holds the tag of the i-th added name in byte
\* 0 and the i-th added value in bytes 1..8; no call writes a byte at or
\* beyond writeOffset, and no call overwrites a Record once written.
C24_AsStated ==
    /\ RecordsInOrder
    /\ [][\A i \in 0..(Capacity - 1) :
            (i < bt.next.loc \/ i >= bt'.next.loc) => ByteKept(i)]_vars

\* C24, the part that holds: the same, with the bytes at or beyond
\* writeOffset left alone by the calls that succeed
C24_RecordsKept ==
    /\ RecordsInOrder
    /\ [][\A i \in 0..(Capacity - 1) :
            \/ i < bt.next.loc
            \/ i >= bt'.next.loc /\ ~ret'.threw
            => ByteKept(i)]_vars

\* a buffer of one Record and 4 bytes more, filled with 255, holds one
\* Record and has refused an add, which wrote its tag at writeOffset
C24_PartialRecord ==
    /\ ret.op = "add" /\ ret.threw
    /\ Capacity = RecordSize + 4 /\ bt.next.loc = RecordSize
    /\ ReadUInt8(bt.buf, bt.next.loc) \in {0, 1}
    /\ \A i \in (bt.next.loc + 1)..(Capacity - 1) :
          ReadUInt8(bt.buf, i) = 255

\* s is the front of t
IsPrefix(s, t) ==
    Len(s) <= Len(t) /\ \A i \in 1..Len(s) : t[i] = s[i]

\* C25: computing statistics never changes the recorded data: stats() on
\* either store leaves every distribution's samples in insertion order and
\* unchanged in value and number (on the Bounded store it may put newly
\* decoded samples behind them), so a later stats() sees exactly the
\* samples added so far.
C25_SamplesKept ==
    /\ [][ret'.op = "stats" =>
            /\ ut'.distributions = ut.distributions
            /\ \A n \in DOMAIN bt.distributions :
                  /\ n \in DOMAIN bt'.distributions
                  /\ IsPrefix(bt.distributions[n], bt'.distributions[n])]_vars
    /\ [](/\ ut.distributions = fed
          /\ (ret.op = "stats" /\ AllAddsSucceeded) =>
                bt.distributions = fed)

\* C25 witness: stats() has been called on both stores holding 10 and then
\* -3 under one name, out of ascending order, and both still hold them so
C25_Witness ==
    /\ ret.op = "stats" /\ seen.n = 2
    /\ \E n \in DOMAIN fed :
        /\ fed[n] = <<10, -3>>
        /\ n \in DOMAIN bt.distributions
        /\ bt.distributions[n] = <<10, -3>>
        /\ ut.distributions[n] = <<10, -3>>
        /\ ret.bounded[n].min = Some(-3)

\* the step is a count call
CountStep == ncounts' = ncounts + 1

\* the step leaves the counter of name n of both stores as it was, missing
\* or with its value
CounterKept(n) ==
    /\ n \in DOMAIN bt'.counters <=> n \in DOMAIN bt.counters
    /\ n \in DOMAIN bt.counters => bt'.counters[n] = bt.counters[n]
    /\ n \in DOMAIN ut'.counters <=> n \in DOMAIN ut.counters
    /\ n \in DOMAIN ut.counters => ut'.counters[n] = ut.counters[n]

\* C26: counters and distributions are independent.  A count call changes
\* the counter of one name only and leaves every distribution, the buffer,
\* the tag table and both cursors as they were; add and stats leave every
\* counter as it was; stats leaves writeOffset, the tag table and the
\* buffer's contents as they were; and no call removes a counter or a
\* distribution.
C26_Independent ==
    [][/\ CountStep =>
            /\ \E n \in Names : \A m \in Names \ {n} : CounterKept(m)
            /\ bt'.distributions = bt.distributions
            /\ ut'.distributions = ut.distributions
            /\ bt'.buf = bt.buf
            /\ bt'.tags = bt.tags
            /\ bt'.next = bt.next
       /\ ~CountStep =>
            /\ bt'.counters = bt.counters
            /\ ut'.counters = ut.counters
       /\ ret'.op = "stats" =>
            /\ bt'.next.loc = bt.next.loc
            /\ bt'.next.tag = bt.next.tag
            /\ bt'.tags = bt.tags
            /\ bt'.buf = bt.buf
       /\ DOMAIN bt.counters \subseteq DOMAIN bt'.counters
       /\ DOMAIN ut.counters \subseteq DOMAIN ut'.counters
       /\ DOMAIN bt.distributions \subseteq DOMAIN bt'.distributions
       /\ DOMAIN ut.distributions \subseteq DOMAIN ut'.distributions]_vars

\* C26 witness: a second name has been counted on a store that holds a
\* Record, decoded into a distribution, and the counter of the first name
\* is as it was
C26_Witness ==
    /\ ret.op = "count" /\ ncounts = 2
    /\ DOMAIN bt.counters = Names /\ DOMAIN ut.counters = Names
    /\ \E n \in Names : bt.counters[n] = 2 /\ counted[n] = 2
    /\ bt.next.loc = RecordSize /\ bt.next.dloc = RecordSize
    /\ DOMAIN bt.distributions # {}
    /\ bt.distributions = ut.distributions

(***************************************************************************)
(* Claims about the Timer (TimerSpec).                                     *)
(***************************************************************************)
\* the events of a call other than clock reads
RECURSIVE Effects(_)
Effects(events) ==
    IF events = <<>> THEN <<>>
    ELSE IF Head(events).ev = "now" THEN Effects(Tail(events))
    ELSE <<Head(events)>> \o Effects(Tail(events))

\* C5 as stated: time(name) called outside the window between start() and
\* the stop() after it returns a passthrough: neither time() nor the
\* callback reads the clock, marks, measures or adds a sample, and the
\* callback returns its argument.
C5_AsStated ==
    /\ (obs.op = "time" /\ ~InWindow)
        => (obs.cb[1].kind = "identity" /\ obs.events = <<>>)
    /\ (obs.op = "call" /\ ~obs.cb[1].inWindow)
        => (obs.events = <<>> /\ obs.value # None)

\* C6 as stated: time(name) called after start() and before stop(),
\* whatever the clock returned at start(), returns a callback that on each
\* run adds exactly one sample, now() - begin, to name and returns its
\* argument.
C6_AsStated ==
    /\ (obs.op = "time" /\ InWindow)
        => (obs.cb[1].kind = "timed" /\ obs.cb[1].name = obs.name
            /\ obs.cb[1].begin = perf.now)
    /\ (obs.op = "call" /\ obs.cb[1].inWindow)
        => (/\ Effects(obs.events) # <<>>
            /\ Head(Effects(obs.events)) =
                   AddEvent(obs.cb[1].name, perf.now - obs.cb[1].begin))

\* C7 as stated: after the first start() the start timestamp never changes
\* and a later start() does not read the clock; the same for stop().
C7_AsStated ==
    [][/\ calls.start =>
            /\ timer'.started = timer.started
            /\ obs'.op = "start" => obs'.events = <<>>
       /\ calls.stop =>
            /\ timer'.stopped = timer.stopped
            /\ obs'.op = "stop" => obs'.events = <<>>]_vars

\* C8 as stated: duration is defined exactly when start() was called and
\* stop() was called after it, and is then stopped - started.
C8_AsStated ==
    Duration(timer) =
        IF calls.start /\ calls.stopAfterStart
        THEN Some(timer.stopped[1] - timer.started[1])
        ELSE None

\* C9 as stated: once stop() has been called after start(), no Timer
\* operation adds a sample to the store.
C9_AsStated ==
    [][calls.stopAfterStart =>
        /\ bt'.next.loc = bt.next.loc
        /\ ut'.distributions = ut.distributions]_vars

\* C10 as stated: for a Tracing Timer between start() and stop(), time(name)
\* issues exactly one mark('b|name'), and each run of the callback it
\* returned issues add(name, elapsed), then one mark('e|name'), then one
\* measure(name, 'b|name', 'e|name').
C10_AsStated ==
    /\ (timer.trace /\ obs.op = "time" /\ InWindow)
        => Effects(obs.events) = <<MarkEvent(MarkName("b", obs.name))>>
    /\ (timer.trace /\ obs.op = "call" /\ obs.cb[1].inWindow)
        => Effects(obs.events) =
             <<AddEvent(obs.name, perf.now - obs.cb[1].begin),
               MarkEvent(MarkName("e", obs.name)),
               MeasureEvent(obs.name, MarkName("b", obs.name),
                            MarkName("e", obs.name))>>

(***************************************************************************)
(* Claims about Timer.create and the Tracer (TracerSpec).                  *)
(***************************************************************************)
\* the events are free of perf.mark and perf.measure
NoMarks(events) ==
    \A i \in DOMAIN events : events[i].ev \notin {"mark", "measure"}

\* C11: Timer.create makes a Tracing Timer exactly when the trace option
\* is true or, the option omitted, the Tracer is enabled at that moment;
\* no later call changes the variant, and no call on a Basic Timer issues
\* a mark or a measure, whatever the Tracer does afterwards.
C11_VariantFixed ==
    [][/\ obs'.op = "create" =>
            timer'.trace = (IF obs'.arg # None THEN obs'.arg[1]
                            ELSE TracerEnabled(tracer))
       /\ HasTimer => timer'.trace = timer.trace
       /\ (HasTimer' /\ ~timer'.trace) => NoMarks(obs'.events)
      ]_vars

\* C11 witness: a Timer created without a trace option while the Tracer
\* was off is Basic; the Tracer was enabled afterwards, and a callback of
\* the Timer has added its sample
C11_Witness ==
    /\ workload = "made" /\ calls.option = None /\ ~timer.trace
    /\ TracerEnabled(tracer)
    /\ obs.op = "call" /\ Effects(obs.events) = <<AddEvent(obs.name, 1)>>

\* C16: enable() on a Tracer that is enabled or has no provider, and
\* disable() on one that is not enabled, change nothing and call nothing;
\* enable() otherwise creates one session, with categories ['node.perf']
\* when none are passed, and enables it; disable() otherwise disables the
\* session once; a Tracer without a provider is never enabled.
C16_EnableDisableOnce ==
    [][/\ (obs'.op = "enable"
             /\ (TracerEnabled(tracer) \/ ~tracer.traceEvents))
            => (tracer' = tracer /\ obs'.events = <<>>)
       /\ (obs'.op = "enable"
             /\ ~TracerEnabled(tracer) /\ tracer.traceEvents)
            => /\ TracerEnabled(tracer')
               /\ obs'.events =
                    <<CreateTracingEvent(IF obs'.arg = None
                                         THEN <<"node.perf">>
                                         ELSE obs'.arg[1]),
                      TracingEnableEvent>>
       /\ (obs'.op = "disable" /\ ~TracerEnabled(tracer))
            => (tracer' = tracer /\ obs'.events = <<>>)
       /\ (obs'.op = "disable" /\ TracerEnabled(tracer))
            => /\ ~TracerEnabled(tracer')
               /\ obs'.events = <<TracingDisableEvent>>
       /\ ~tracer'.traceEvents => ~TracerEnabled(tracer')
      ]_vars

\* C16 witness: enable() was called on an enabled Tracer and did nothing
C16_Witness ==
    /\ obs.op = "enable" /\ obs.events = <<>>
    /\ tracer.traceEvents /\ TracerEnabled(tracer)

(***************************************************************************)
(* Claims about Stats (StatsSpec).                                         *)
(***************************************************************************)
\* the sum of the squared deviations of arr from its mean
DeviationSquares == SumOf(SquaredDeviations(arr, StatsMean(arr, None)))

\* the relative error that a few roundings leave: 2^-51
Rounding == Round(FALSE, <<1>>, -51, FALSE)

\* the result of variance is the sum of squared deviations divided by
\* n - 1 when sample is true and by n otherwise
DivisorBySample ==
    out.value[1] =
        DivBy(DeviationSquares,
              IF out.sample = Some(TRUE) THEN Len(arr) - 1 ELSE Len(arr))

CloseTo(a, b) == Less(AbsOf(Minus(a, b)), Decimal(5, 1000))

\* C18 as stated: variance called with the array alone divides by n - 1,
\* and called with true as second argument divides by n; on array(100) of
\* the tests variance(arr) is 841.67 and variance(arr, true) is 833.25.
C18_AsStated ==
    (out.fn = "variance" /\ Len(arr) > 1) =>
        LET n == Len(arr)
        IN  /\ out.sample = None =>
                  out.value[1] = DivBy(DeviationSquares, n - 1)
            /\ out.sample = Some(TRUE) =>
                  out.value[1] = DivBy(DeviationSquares, n)
            /\ (arr = Scaled(TestArray(100), 1) /\ out.sample = None) =>
                  CloseTo(out.value[1], Decimal(84167, 100))
            /\ (arr = Scaled(TestArray(100), 1) /\ out.sample = Some(TRUE)) =>
                  CloseTo(out.value[1], Decimal(83325, 100))

\* the standard error marginOfError works with: the one passed in, or
\* standardErrorOfMean(xs, sample) when none is
StandardError ==
    IF out.sem # None THEN out.sem[1]
    ELSE StatsStandardErrorOfMean(arr, out.sample, None)

\* C19 as stated: marginOfError is the standard error times the entry
\* n - 2 of the t-table for n in 2..30, times 1.96 for n > 30 and for
\* n = 1, and 0 for the empty array.
C19_AsStated ==
    out.fn = "marginOfError" =>
        LET n == Len(arr)
        IN  out.value[1] =
              IF n = 0 THEN Zero
              ELSE Times(StandardError,
                       IF n \in 2..30 THEN Thousandths(TABLE[n - 1])
                       ELSE Thousandths(TINF))

\* C19 amended: the same with the t-table used for n in 2..31 (its 30
\* entries are the degrees of freedom 1..30) and 1.96 for n > 31 and n = 1.
C19_CriticalValue ==
    out.fn = "marginOfError" =>
        LET n == Len(arr)
        IN  out.value[1] =
              IF n = 0 THEN Zero
              ELSE Times(StandardError,
                       IF n \in 2..31 THEN Thousandths(TABLE[n - 1])
                       ELSE Thousandths(TINF))

\* C19 witness: 31 elements and a standard error of 1.5 give 1.5 * 2.042
C19_Witness ==
    /\ out.fn = "marginOfError" /\ Len(arr) = 31
    /\ out.sem = Some(Decimal(3, 2))
    /\ out.value = Some(Times(Decimal(3, 2), Decimal(2042, 1000)))
    /\ CloseTo(out.value[1], Decimal(3063, 1000))

\* element i (from 0) of a JavaScript array in arithmetic: reading past
\* the end gives undefined, and undefined times a number is NaN
Element(sorted, i) ==
    IF i + 1 \in DOMAIN sorted THEN sorted[i + 1] ELSE NaN

\* sorted[lower]*(1-weight) + sorted[upper]*weight with index = (n-1)*p,
\* lower = floor(index), upper = lower+1, weight = index mod 1
Interpolated(sorted, p) ==
    LET index  == Times(Whole(Len(sorted) - 1), p)
        lower  == Floor(index)
        upper  == lower + 1
        weight == Mod1(index)
    IN  Plus(Times(Element(sorted, lower), Minus(Whole(1), weight)),
            Times(Element(sorted, upper), weight))

\* the result lies between min(xs) and max(xs)
WithinRange ==
    /\ Leq(StatsMin(out.given), out.value[1])
    /\ Leq(out.value[1], StatsMax(out.given))

\* the result lies between min(xs) and max(xs) or outside by no more than
\* the roundings of the interpolation leave, 2^-51 of the larger bound
NearRange ==
    LET lo  == StatsMin(out.given)
        hi  == StatsMax(out.given)
        big == IF Leq(AbsOf(lo), AbsOf(hi)) THEN AbsOf(hi) ELSE AbsOf(lo)
        eps == Times(big, Rounding)
    IN  /\ Leq(Minus(lo, eps), out.value[1])
        /\ Leq(out.value[1], Plus(hi, eps))

\* C20 as stated: for a non-empty array in any order percentile(xs, p) is
\* min(xs) for p <= 0, max(xs) for p >= 1, and for 0 < p < 1 the value
\* sorted[lower]*(1-weight) + sorted[upper]*weight; it lies between
\* min(xs) and max(xs), and xs is not modified.
C20_AsStated ==
    (out.fn = "percentile" /\ Len(out.given) > 0) =>
        /\ out.value[1] =
              IF Leq(out.p[1], Zero) THEN StatsMin(out.given)
              ELSE IF Leq(Whole(1), out.p[1]) THEN StatsMax(out.given)
              ELSE Interpolated(Sorted(out.given), out.p[1])
        /\ WithinRange
        /\ arr = out.given

\* C20 amended: the same, with sorted[lower] as the value for 0 < p < 1
\* when upper is past the end of the array (an array of one element), and
\* with the value between min(xs) and max(xs) up to rounding.
C20_Percentile ==
    (out.fn = "percentile" /\ Len(out.given) > 0) =>
        /\ out.value[1] =
              IF Leq(out.p[1], Zero) THEN StatsMin(out.given)
              ELSE IF Leq(Whole(1), out.p[1]) THEN StatsMax(out.given)
              ELSE IF Len(out.given) = 1 THEN out.given[1]
              ELSE Interpolated(Sorted(out.given), out.p[1])
        /\ NearRange
        /\ arr = out.given

\* C20 witness: percentile(<<10, -3, -3>>, 0.1), of an array not in order,
\* interpolates between -3 and -3 and is below -3
C20_Witness ==
    /\ out.fn = "percentile" /\ out.p = Some(Decimal(1, 10))
    /\ out.given = Scaled(<<10, -3, -3>>, 1) /\ arr = out.given
    /\ Less(out.value[1], Whole(-3))
    /\ out.value[1] =
          Plus(Times(Whole(-3), Minus(Whole(1), Decimal(2, 10))),
              Times(Whole(-3), Decimal(2, 10)))

\* the functions of Stats that return 0 for an empty array
ZeroWhenEmpty ==
    {"sum", "mean", "median", "percentile", "variance",
     "standardDeviation", "standardErrorOfMean", "marginOfError",
     "relativeMarginOfError"}

\* C21: for an empty array sum, mean, median, percentile (any p), variance,
\* standardDeviation, standardErrorOfMean, marginOfError and
\* relativeMarginOfError return 0 whatever the sample flag, min returns
\* Infinity and max returns -Infinity; each of them returns.
C21_EmptyInput ==
    (out.fn # "none" /\ out.given = <<>>) =>
        /\ out.value # None
        /\ out.fn \in ZeroWhenEmpty => out.value[1] = Zero
        /\ out.fn = "min" => out.value[1] = Infinity(FALSE)
        /\ out.fn = "max" => out.value[1] = Infinity(TRUE)

\* C21 witness: min of the empty array has returned Infinity
C21_Witness ==
    /\ out.fn = "min" /\ out.given = <<>>
    /\ out.value = Some(Infinity(FALSE))

\* a number that is neither NaN nor an infinity
WellDefined(x) == x.kind = "num"

\* the functions of C22, whose results depend on the variance
FromVariance ==
    {"variance", "standardDeviation", "standardErrorOfMean", "marginOfError"}

\* C22 as stated: for an array of one element variance, standardDeviation,
\* standardErrorOfMean, marginOfError and the fields var, std, sem and moe
\* of compute are well-defined numbers, not NaN and not the result of a
\* division by zero, for sample = true and for sample = false.
C22_AsStated ==
    (Len(out.given) = 1 /\ out.sample \in {Some(TRUE), Some(FALSE)}) =>
        /\ out.fn \in FromVariance => WellDefined(out.value[1])
        /\ out.fn = "compute" =>
              /\ WellDefined(out.value[1].var)
              /\ WellDefined(out.value[1].std)
              /\ WellDefined(out.value[1].sem)
              /\ WellDefined(out.value[1].moe)

\* C22, the part that holds: the same for sample = false or omitted, where
\* each of them is 0
C22_PopulationOfOne ==
    (Len(out.given) = 1 /\ out.sample \in {None, Some(FALSE)}) =>
        /\ (out.fn \in FromVariance /\ out.sem = None) => out.value[1] = Zero
        /\ out.fn = "compute" =>
              /\ out.value[1].var = Zero
              /\ out.value[1].std = Zero
              /\ out.value[1].sem = Zero
              /\ out.value[1].moe = Zero

\* variance of one element with sample = true has returned NaN, 0 / 0
C22_DividesByZero ==
    /\ out.fn = "variance" /\ out.given = <<Whole(-3)>>
    /\ out.sample = Some(TRUE)
    /\ out.value = Some(NaN)

\* C27 as stated: for every array, the empty one too, the min and max
\* fields of compute are Stats.min and Stats.max of the array, cnt is its
\* length and sum is Stats.sum of the array.
C27_AsStated ==
    out.fn = "compute" =>
        /\ out.value[1].min = Some(StatsMin(out.given))
        /\ out.value[1].max = Some(StatsMax(out.given))
        /\ out.value[1].cnt = Len(out.given)
        /\ out.value[1].sum = SumOf(out.given)

\* C27, the part that holds: cnt is the length; for a non-empty array min
\* and max are Stats.min and Stats.max, and sum is Stats.sum of the sorted
\* copy, which is Stats.sum of the array when the additions are exact
C27_SortedSum ==
    out.fn = "compute" =>
        /\ out.value[1].cnt = Len(out.given)
        /\ out.value[1].sum = SumOf(Sorted(out.given))
        /\ Len(out.given) > 0 =>
              /\ out.value[1].min = Some(StatsMin(out.given))
              /\ out.value[1].max = Some(StatsMax(out.given))
        /\ out.given \in {Scaled(xs, 1) : xs \in SmallArrays} =>
              out.value[1].sum = SumOf(out.given)

\* compute of the empty array has returned min and max undefined, where
\* Stats.min and Stats.max return Infinity and -Infinity
C27_UndefinedWhenEmpty ==
    /\ out.fn = "compute" /\ out.given = <<>>
    /\ out.value[1].min = None /\ out.value[1].max = None
    /\ StatsMin(out.given) = Infinity(FALSE)
    /\ StatsMax(out.given) = Infinity(TRUE)

\* compute of a non-empty array has returned a sum that is not Stats.sum of
\* the array, the additions being rounded in another order
C27_SumInAnotherOrder ==
    /\ out.fn = "compute" /\ Len(out.given) > 0
    /\ out.value[1].sum # SumOf(out.given)
    /\ out.value[1].min = Some(StatsMin(out.given))

\* C25 for Stats.compute called on its own: compute(arr, sample) on any
\* array leaves the array as it was
C25_ComputeKeepsArray ==
    out.fn = "compute" => arr = out.given

====
